---------------------------- MODULE Spec2Model ----------------------------
(***************************************************************************)
(* Model of 2025_christmas.py: the league's standings pipeline             *)
(* (compute_match_stats, compute_player_aggregate,                         *)
(* compute_direct_comparison_helpers, compute_standings), the score form   *)
(* (scores_to_game_winners) and the persistence helpers (load_results,     *)
(* save_results and the gist calls).                                       *)
(***************************************************************************)
EXTENDS Integers, Sequences, FiniteSets, TLC

(***************************************************************************)
(* League configuration                                                    *)
(***************************************************************************)
PLAYERS == <<"Dahn", "Manu", "Homi", "Tobi", "Till">>

MATCHES ==
  << [id |-> 1,  round |-> 1, A |-> "Dahn", B |-> "Homi"],
     [id |-> 2,  round |-> 1, A |-> "Tobi", B |-> "Manu"],
     [id |-> 3,  round |-> 2, A |-> "Dahn", B |-> "Manu"],
     [id |-> 4,  round |-> 2, A |-> "Tobi", B |-> "Till"],
     [id |-> 5,  round |-> 3, A |-> "Manu", B |-> "Till"],
     [id |-> 6,  round |-> 3, A |-> "Homi", B |-> "Tobi"],
     [id |-> 7,  round |-> 4, A |-> "Dahn", B |-> "Tobi"],
     [id |-> 8,  round |-> 4, A |-> "Till", B |-> "Homi"],
     [id |-> 9,  round |-> 5, A |-> "Dahn", B |-> "Till"],
     [id |-> 10, round |-> 5, A |-> "Manu", B |-> "Homi"] >>

\* the set of elements of a sequence
Range(s) == {s[i] : i \in DOMAIN s}

PlayerSet == Range(PLAYERS)

\* mid = str(m["id"]): the key of a match in the result set
MidOf(m) == ToString(m.id)

MatchIds == {MidOf(MATCHES[i]) : i \in DOMAIN MATCHES}

MatchOf(mid) == CHOOSE m \in Range(MATCHES) : MidOf(m) = mid

\* dict.get(key, default)
Get(d, key, default) == IF key \in DOMAIN d THEN d[key] ELSE default

\* the entry load_results gives a match without stored data
EmptyEntry == [g1 |-> "", g2 |-> "", g3 |-> "", scheduled |-> ""]

(***************************************************************************)
(* compute_match_stats                                                     *)
(***************************************************************************)
\* CountMaps that gives B every slot that is neither A nor empty
RECURSIVE CountMaps_else_B(_, _, _, _, _)
CountMaps_else_B(gws, i, A, B, acc) ==
  IF i > Len(gws) THEN acc
  ELSE IF gws[i] = A THEN CountMaps_else_B(gws, i + 1, A, B, <<acc[1] + 1, acc[2]>>)
  ELSE IF gws[i] # "" THEN CountMaps_else_B(gws, i + 1, A, B, <<acc[1], acc[2] + 1>>)
  ELSE CountMaps_else_B(gws, i + 1, A, B, acc)

\* for gw in (g1, g2, g3): if gw == A: a_maps += 1 elif gw == B: b_maps += 1
RECURSIVE CountMaps(_, _, _, _, _)
CountMaps(gws, i, A, B, acc) ==
  IF i > Len(gws) THEN acc
  ELSE IF gws[i] = A THEN CountMaps(gws, i + 1, A, B, <<acc[1] + 1, acc[2]>>)
  ELSE IF gws[i] = B THEN CountMaps(gws, i + 1, A, B, <<acc[1], acc[2] + 1>>)
  ELSE CountMaps(gws, i + 1, A, B, acc)

\* MatchStatsOf with a tie given to participant A
MatchStatsOf_tie_to_A(m, results) ==
  LET entry == Get(results, MidOf(m), <<>>)
      c == CountMaps(<<Get(entry, "g1", ""), Get(entry, "g2", ""), Get(entry, "g3", "")>>,
                     1, m.A, m.B, <<0, 0>>)
  IN [A_maps |-> c[1], B_maps |-> c[2],
      winner |-> IF c[1] >= c[2] THEN m.A ELSE m.B]

\* the body of the loop of compute_match_stats for one match
MatchStatsOf(m, results) ==
  LET entry == Get(results, MidOf(m), <<>>)
      g1 == Get(entry, "g1", "")
      g2 == Get(entry, "g2", "")
      g3 == Get(entry, "g3", "")
      c == CountMaps(<<g1, g2, g3>>, 1, m.A, m.B, <<0, 0>>)
      a_maps == c[1]
      b_maps == c[2]
      winner == IF a_maps > b_maps THEN m.A
                ELSE IF b_maps > a_maps THEN m.B
                ELSE ""
  IN [A_maps |-> a_maps, B_maps |-> b_maps, winner |-> winner]

\* compute_match_stats over a list of matches
match_stats_of(matches, results) ==
  [mid \in {MidOf(matches[i]) : i \in DOMAIN matches} |->
     MatchStatsOf(CHOOSE m \in Range(matches) : MidOf(m) = mid, results)]

compute_match_stats(results) == match_stats_of(MATCHES, results)

(***************************************************************************)
(* compute_player_aggregate                                                *)
(***************************************************************************)
ZeroAggregate ==
  [p \in PlayerSet |->
     [player |-> p, matches_played |-> 0, match_wins |-> 0,
      match_losses |-> 0, map_wins |-> 0, map_losses |-> 0]]

\* AggregateStep that adds B's own maps to B's map_losses
AggregateStep_own_losses(agg, m, ms) ==
  IF ms.A_maps + ms.B_maps = 0 THEN agg
  ELSE [agg EXCEPT
          ![m.A] = [@ EXCEPT
                      !.matches_played = @ + 1,
                      !.map_wins = @ + ms.A_maps,
                      !.map_losses = @ + ms.B_maps,
                      !.match_wins = IF ms.winner = m.A THEN @ + 1 ELSE @,
                      !.match_losses = IF ms.winner = m.B THEN @ + 1 ELSE @],
          ![m.B] = [@ EXCEPT
                      !.matches_played = @ + 1,
                      !.map_wins = @ + ms.B_maps,
                      !.map_losses = @ + ms.B_maps,
                      !.match_wins = IF ms.winner = m.B THEN @ + 1 ELSE @,
                      !.match_losses = IF ms.winner = m.A THEN @ + 1 ELSE @]]

\* AggregateStep without the skip of a match that has no recorded game
AggregateStep_no_skip(agg, m, ms) ==
  [agg EXCEPT
     ![m.A] = [@ EXCEPT
                 !.matches_played = @ + 1,
                 !.map_wins = @ + ms.A_maps,
                 !.map_losses = @ + ms.B_maps,
                 !.match_wins = IF ms.winner = m.A THEN @ + 1 ELSE @,
                 !.match_losses = IF ms.winner = m.B THEN @ + 1 ELSE @],
     ![m.B] = [@ EXCEPT
                 !.matches_played = @ + 1,
                 !.map_wins = @ + ms.B_maps,
                 !.map_losses = @ + ms.A_maps,
                 !.match_wins = IF ms.winner = m.B THEN @ + 1 ELSE @,
                 !.match_losses = IF ms.winner = m.A THEN @ + 1 ELSE @]]

\* one iteration of the loop over the matches
AggregateStep(agg, m, ms) ==
  LET A == m.A
      B == m.B
      a_maps == ms.A_maps
      b_maps == ms.B_maps
      winner == ms.winner
  IN IF a_maps + b_maps = 0 THEN agg
     ELSE [agg EXCEPT
             ![A] = [@ EXCEPT
                       !.matches_played = @ + 1,
                       !.map_wins = @ + a_maps,
                       !.map_losses = @ + b_maps,
                       !.match_wins = IF winner = A THEN @ + 1 ELSE @,
                       !.match_losses = IF winner = B THEN @ + 1 ELSE @],
             ![B] = [@ EXCEPT
                       !.matches_played = @ + 1,
                       !.map_wins = @ + b_maps,
                       !.map_losses = @ + a_maps,
                       !.match_wins = IF winner = B THEN @ + 1 ELSE @,
                       !.match_losses = IF winner = A THEN @ + 1 ELSE @]]

RECURSIVE AggregateLoop(_, _, _, _)
AggregateLoop(matches, i, match_stats, agg) ==
  IF i > Len(matches) THEN agg
  ELSE AggregateLoop(matches, i + 1, match_stats,
                     AggregateStep(agg, matches[i], match_stats[MidOf(matches[i])]))

player_aggregate_of(matches, match_stats) ==
  AggregateLoop(matches, 1, match_stats, ZeroAggregate)

compute_player_aggregate(match_stats) == player_aggregate_of(MATCHES, match_stats)

(***************************************************************************)
(* compute_direct_comparison_helpers                                       *)
(***************************************************************************)
\* wins_groups[row["match_wins"]].append(p), a defaultdict(list) kept as the
\* sequence of its (key, players) items in insertion order
RECURSIVE AppendToGroup(_, _, _, _)
AppendToGroup(groups, i, key, p) ==
  IF i > Len(groups) THEN Append(groups, [key |-> key, players |-> <<p>>])
  ELSE IF groups[i].key = key
       THEN [groups EXCEPT ![i].players = Append(@, p)]
       ELSE AppendToGroup(groups, i + 1, key, p)

RECURSIVE WinsGroupsLoop(_, _, _)
WinsGroupsLoop(agg, i, groups) ==
  IF i > Len(PLAYERS) THEN groups
  ELSE WinsGroupsLoop(agg, i + 1,
                      AppendToGroup(groups, 1, agg[PLAYERS[i]].match_wins, PLAYERS[i]))

wins_groups(agg) == WinsGroupsLoop(agg, 1, <<>>)

\* FindGroup that settles for the first group holding A
RECURSIVE FindGroup_of_A(_, _, _, _)
FindGroup_of_A(groups, i, A, B) ==
  IF i > Len(groups) THEN <<>>
  ELSE IF A \in Range(groups[i].players)
       THEN groups[i].players
       ELSE FindGroup_of_A(groups, i + 1, A, B)

\* the first group holding both A and B; the empty list stands for None
RECURSIVE FindGroup(_, _, _, _)
FindGroup(groups, i, A, B) ==
  IF i > Len(groups) THEN <<>>
  ELSE IF A \in Range(groups[i].players) /\ B \in Range(groups[i].players)
       THEN groups[i].players
       ELSE FindGroup(groups, i + 1, A, B)

ZeroMini ==
  [p \in PlayerSet |-> [mini_match_wins |-> 0, mini_map_wins |-> 0]]

\* one iteration of the loop over the matches
MiniStep(mini, groups, m, ms) ==
  LET A == m.A
      B == m.B
      a_maps == ms.A_maps
      b_maps == ms.B_maps
      winner == ms.winner
      group == FindGroup(groups, 1, A, B)
  IN IF group = <<>> THEN mini
     ELSE IF a_maps + b_maps = 0 THEN mini
     ELSE [mini EXCEPT
             ![A] = [@ EXCEPT
                       !.mini_map_wins = @ + a_maps,
                       !.mini_match_wins = IF winner = A THEN @ + 1 ELSE @],
             ![B] = [@ EXCEPT
                       !.mini_map_wins = @ + b_maps,
                       !.mini_match_wins = IF winner = B THEN @ + 1 ELSE @]]

RECURSIVE MiniLoop(_, _, _, _, _)
MiniLoop(matches, i, groups, match_stats, mini) ==
  IF i > Len(matches) THEN mini
  ELSE MiniLoop(matches, i + 1, groups, match_stats,
                MiniStep(mini, groups, matches[i], match_stats[MidOf(matches[i])]))

direct_comparison_helpers_of(matches, agg, match_stats) ==
  MiniLoop(matches, 1, wins_groups(agg), match_stats, ZeroMini)

compute_direct_comparison_helpers(agg, match_stats) ==
  direct_comparison_helpers_of(MATCHES, agg, match_stats)

(***************************************************************************)
(* compute_standings                                                       *)
(***************************************************************************)
\* the code points of the player identifiers, which str comparison goes by
CodePoints(p) ==
  CASE p = "Dahn" -> <<68, 97, 104, 110>>
    [] p = "Manu" -> <<77, 97, 110, 117>>
    [] p = "Homi" -> <<72, 111, 109, 105>>
    [] p = "Tobi" -> <<84, 111, 98, 105>>
    [] p = "Till" -> <<84, 105, 108, 108>>

\* s < t for sequences of integers (tuples and str compare this way)
RECURSIVE LexLess(_, _, _)
LexLess(s, t, i) ==
  IF i > Len(s) THEN i <= Len(t)
  ELSE IF i > Len(t) THEN FALSE
  ELSE IF s[i] < t[i] THEN TRUE
  ELSE IF s[i] > t[i] THEN FALSE
  ELSE LexLess(s, t, i + 1)

\* key=lambda r: r["player"]
PlayerKey(r) == CodePoints(r.player)

\* RankKey with the total map wins ahead of the mini counters
RankKey_maps_first(r) ==
  <<r.match_wins, r.map_wins, r.mini_match_wins, r.mini_map_wins>>

\* key=lambda r: (match_wins, mini_match_wins, mini_map_wins, map_wins)
RankKey(r) == <<r.match_wins, r.mini_match_wins, r.mini_map_wins, r.map_wins>>

\* table.sort(key=lambda r: r["player"])
PlayerBefore(x, y) == LexLess(PlayerKey(x), PlayerKey(y), 1)

\* table.sort(key=..., reverse=True): descending, equal keys keep their order
RankBefore(x, y) == LexLess(RankKey(y), RankKey(x), 1)

\* the order of one of the two sort calls
Before(order, x, y) ==
  IF order = "player" THEN PlayerBefore(x, y) ELSE RankBefore(x, y)

\* list.sort is stable: an element goes behind every element already placed
\* that does not come strictly after it
RECURSIVE InsertPos(_, _, _, _)
InsertPos(out, x, i, order) ==
  IF i > Len(out) THEN i
  ELSE IF Before(order, x, out[i]) THEN i
  ELSE InsertPos(out, x, i + 1, order)

RECURSIVE StableSort(_, _, _, _)
StableSort(lst, i, out, order) ==
  IF i > Len(lst) THEN out
  ELSE LET k == InsertPos(out, lst[i], 1, order)
       IN StableSort(lst, i + 1,
                     SubSeq(out, 1, k - 1) \o <<lst[i]>> \o SubSeq(out, k, Len(out)),
                     order)

\* BuildTable that leaves out the players without a played match
BuildTable_played_only(agg, mini) ==
  LET Played(p) == agg[p].matches_played > 0
      ps == SelectSeq(PLAYERS, Played)
  IN [i \in 1..Len(ps) |->
        [player |-> ps[i],
         matches_played |-> agg[ps[i]].matches_played,
         match_wins |-> agg[ps[i]].match_wins,
         match_losses |-> agg[ps[i]].match_losses,
         map_wins |-> agg[ps[i]].map_wins,
         map_losses |-> agg[ps[i]].map_losses,
         mini_match_wins |-> mini[ps[i]].mini_match_wins,
         mini_map_wins |-> mini[ps[i]].mini_map_wins]]

\* row = agg[p].copy() with the two mini counters added, for p in PLAYERS
BuildTable(agg, mini) ==
  [i \in 1..Len(PLAYERS) |->
     LET p == PLAYERS[i]
     IN [player |-> agg[p].player,
         matches_played |-> agg[p].matches_played,
         match_wins |-> agg[p].match_wins,
         match_losses |-> agg[p].match_losses,
         map_wins |-> agg[p].map_wins,
         map_losses |-> agg[p].map_losses,
         mini_match_wins |-> mini[p].mini_match_wins,
         mini_map_wins |-> mini[p].mini_map_wins]]

SortTable(table) ==
  StableSort(StableSort(table, 1, <<>>, "player"), 1, <<>>, "rank")

standings_of(matches, results) ==
  LET match_stats == match_stats_of(matches, results)
      agg == player_aggregate_of(matches, match_stats)
      mini == direct_comparison_helpers_of(matches, agg, match_stats)
  IN SortTable(BuildTable(agg, mini))

compute_standings(results) == standings_of(MATCHES, results)

(***************************************************************************)
(* scores_to_game_winners                                                  *)
(***************************************************************************)
\* [x] * n, the empty list when n <= 0
Repeat(x, n) == [i \in 1..(IF n < 0 THEN 0 ELSE n) |-> x]

\* scores_to_game_winners without the padding
scores_to_game_winners_unpadded(a_maps, b_maps, player_a, player_b) ==
  LET winners == Repeat(player_a, a_maps) \o Repeat(player_b, b_maps)
  IN SubSeq(winners, 1, IF Len(winners) < 3 THEN Len(winners) ELSE 3)

scores_to_game_winners(a_maps, b_maps, player_a, player_b) ==
  LET winners == Repeat(player_a, a_maps) \o Repeat(player_b, b_maps)
      padded == winners \o Repeat("", 3 - Len(winners))
  IN SubSeq(padded, 1, IF Len(padded) < 3 THEN Len(padded) ELSE 3)

(***************************************************************************)
(* Persistence helpers                                                     *)
(***************************************************************************)
\* the text of a store: nothing, a JSON document or text that is no JSON
NoContent == [text |-> "none", data |-> <<>>]

Unparsable == [text |-> "garbage", data |-> <<>>]

\* the JSON text null, which json.loads turns into None
JsonNull == [text |-> "null", data |-> <<>>]

\* json.dumps(results, indent=2)
json_dumps(data) == [text |-> "json", data |-> data]

\* json.loads(content): the document, or None (ok = FALSE) where it raises
json_loads(content) ==
  IF content.text = "json" THEN [ok |-> TRUE, data |-> content.data]
  ELSE [ok |-> FALSE, data |-> <<>>]

None == [ok |-> FALSE, data |-> <<>>]

\* load_results_from_gist: answer is what the GET request met with; gists
\* holds the results.json content of every gist, gist ids being 1, 2, ...
load_results_from_gist(gist_id, answer, gists) ==
  IF answer # "ok" THEN None
  ELSE IF gist_id \notin DOMAIN gists THEN None
  ELSE IF gists[gist_id].text = "none" THEN None
  ELSE json_loads(gists[gist_id])

\* dict.setdefault(key, default)
SetDefault(d, key, default) ==
  IF key \in DOMAIN d THEN d
  ELSE [k \in (DOMAIN d) \cup {key} |-> IF k = key THEN default ELSE d[k]]

\* the loop of load_results that completes the entries of the matches
RECURSIVE FillEntries(_, _)
FillEntries(data, i) ==
  IF i > Len(MATCHES) THEN data
  ELSE LET mid == MidOf(MATCHES[i])
       IN IF mid \notin DOMAIN data
          THEN FillEntries(SetDefault(data, mid, EmptyEntry), i + 1)
          ELSE FillEntries(
                 [data EXCEPT ![mid] =
                    SetDefault(SetDefault(SetDefault(SetDefault(@,
                      "g1", ""), "g2", ""), "g3", ""), "scheduled", "")],
                 i + 1)

\* load_results reading the local file first and the gist only behind it
load_results_local_first(token, gist_id, answer, gists, file) ==
  LET local == IF file.text # "none" THEN json_loads(file) ELSE None
      remote == IF ~local.ok /\ token # 0 /\ gist_id # 0
                THEN load_results_from_gist(gist_id, answer, gists)
                ELSE local
      data == IF remote.ok THEN remote.data ELSE <<>>
  IN FillEntries(data, 1)

\* load_results: token and gist_id are 0 when unset; file is the content of
\* the local file, NoContent when it does not exist
load_results(token, gist_id, answer, gists, file) ==
  LET remote == IF token # 0 /\ gist_id # 0
                THEN load_results_from_gist(gist_id, answer, gists)
                ELSE None
      local == IF ~remote.ok /\ file.text # "none" THEN json_loads(file) ELSE remote
      data == IF local.ok THEN local.data ELSE <<>>
  IN FillEntries(data, 1)

\* save_results_to_gist: answer is what the PATCH or POST request met with;
\* returns the gist id (0 for None), the error (empty for None) and the gists
save_results_to_gist(payload, gist_id, answer, gists) ==
  IF gist_id # 0
  THEN IF answer = "ok" /\ gist_id \in DOMAIN gists
       THEN [gid |-> gist_id, err |-> "",
             gists |-> [gists EXCEPT ![gist_id] = payload]]
       ELSE IF answer = "exception"
            THEN [gid |-> 0, err |-> "Gist save error", gists |-> gists]
            ELSE [gid |-> 0, err |-> "Gist patch failed", gists |-> gists]
  ELSE IF answer = "ok"
       THEN [gid |-> Len(gists) + 1, err |-> "", gists |-> Append(gists, payload)]
       ELSE IF answer = "no id"
            THEN [gid |-> 0, err |-> "", gists |-> Append(gists, payload)]
            ELSE IF answer = "exception"
                 THEN [gid |-> 0, err |-> "Gist save error", gists |-> gists]
                 ELSE [gid |-> 0, err |-> "Gist create failed", gists |-> gists]

\* the write of the temporary file and its rename over the results file
WriteLocal(payload, disk, file, out) ==
  IF disk = "ok"
  THEN [out EXCEPT !.file = payload, !.local = "written"]
  ELSE [out EXCEPT !.file = file, !.local = "failed", !.raised = TRUE]

\* save_results with the gist save failing and no local write behind it
save_results_no_fallback(data, token, gist_id, cache, answer, disk, gists, file) ==
  LET payload == json_dumps(data)
      out == [gists |-> gists, file |-> file, cache |-> cache, notices |-> {},
              remote |-> "none", local |-> "none", raised |-> FALSE]
      gid == IF cache # 0 THEN cache ELSE gist_id
      r == save_results_to_gist(payload, gid, answer, gists)
  IN IF token # 0
     THEN IF r.gid # 0
          THEN [out EXCEPT !.gists = r.gists, !.remote = "saved"]
          ELSE [out EXCEPT !.gists = r.gists, !.remote = "failed",
                           !.notices = {"warning: gist save failed"}]
     ELSE WriteLocal(payload, disk, file, out)

\* save_results: what it leaves behind: the stores, the GIST_ID_CACHE, the
\* notices shown, what became of the remote and the local save, and whether
\* it raised
save_results(data, token, gist_id, cache, answer, disk, gists, file) ==
  LET payload == json_dumps(data)
      out == [gists |-> gists, file |-> file, cache |-> cache, notices |-> {},
              remote |-> "none", local |-> "none", raised |-> FALSE]
      gid == IF cache # 0 THEN cache ELSE gist_id
      r == save_results_to_gist(payload, gid, answer, gists)
  IN IF token # 0
     THEN IF r.gid # 0
          THEN IF r.gid # gist_id /\ cache = 0
               THEN [out EXCEPT !.gists = r.gists, !.remote = "saved",
                                !.cache = r.gid, !.notices = {"info: new gist"}]
               ELSE [out EXCEPT !.gists = r.gists, !.remote = "saved"]
          ELSE WriteLocal(payload, disk, file,
                 [out EXCEPT !.gists = r.gists, !.remote = "failed",
                             !.notices = IF r.err # ""
                                         THEN {"warning: gist save failed"} ELSE {}])
     ELSE WriteLocal(payload, disk, file, out)

(***************************************************************************)
(* Dashboard                                                               *)
(***************************************************************************)
\* the date and time the schedule inputs show when no note can be parsed:
\* date.today() and time(hour=21, minute=0)
DefaultSchedule == "2025-12-02 21:00"

\* a date and time the user can pick instead
PickedSchedule == "2025-12-07 21:00"

\* parse_scheduled_value and the f-string of schedule_val: the note as the
\* date and time inputs give it back
ScheduleVal(note) ==
  IF note \in {DefaultSchedule, PickedSchedule} THEN note ELSE DefaultSchedule

\* rounds = sorted(set(m["round"] for m in MATCHES)) and the matches of each
\* round in turn: the order in which the dashboard goes through the matches
RECURSIVE DisplayOrder(_)
DisplayOrder(rnd) ==
  LET Last == CHOOSE r \in {MATCHES[i].round : i \in DOMAIN MATCHES} :
                \A i \in DOMAIN MATCHES : MATCHES[i].round <= r
      InRound(m) == m.round = rnd
  IN IF rnd > Last THEN <<>>
     ELSE SelectSeq(MATCHES, InRound) \o DisplayOrder(rnd + 1)

FirstRound ==
  CHOOSE r \in {MATCHES[i].round : i \in DOMAIN MATCHES} :
    \A i \in DOMAIN MATCHES : r <= MATCHES[i].round

\* the widget defaults with the two scores of a match taken from the wrong
\* side
DefaultScores_swapped(data) ==
  LET defaults_stats == compute_match_stats(data)
  IN [mid \in MatchIds |-> <<defaults_stats[mid].B_maps, defaults_stats[mid].A_maps>>]

\* the widget defaults of a new session: st.session_state.setdefault of the
\* score keys from compute_match_stats and of the schedule inputs
DefaultScores(data) ==
  LET defaults_stats == compute_match_stats(data)
  IN [mid \in MatchIds |-> <<defaults_stats[mid].A_maps, defaults_stats[mid].B_maps>>]

DefaultSched(data) ==
  [mid \in MatchIds |-> ScheduleVal(Get(data[mid], "scheduled", ""))]

\* the data-entry loop without its guard: the slots are overwritten from the
\* scores whatever their total
RECURSIVE DataEntryLoop_unguarded(_, _, _, _, _)
DataEntryLoop_unguarded(order, i, scores, sched, acc) ==
  IF i > Len(order) THEN acc
  ELSE LET m == order[i]
           mid == MidOf(m)
           total_maps == scores[mid][1] + scores[mid][2]
           noted == [acc.results EXCEPT ![mid].scheduled = sched[mid]]
           w == scores_to_game_winners(scores[mid][1], scores[mid][2], m.A, m.B)
       IN DataEntryLoop_unguarded(order, i + 1, scores, sched,
            [results |-> [noted EXCEPT ![mid].g1 = w[1], ![mid].g2 = w[2],
                                       ![mid].g3 = w[3]],
             invalid_matches |-> IF total_maps > 3
                                 THEN Append(acc.invalid_matches, mid)
                                 ELSE acc.invalid_matches])

\* the data-entry loop over the matches: the results and invalid_matches
RECURSIVE DataEntryLoop(_, _, _, _, _)
DataEntryLoop(order, i, scores, sched, acc) ==
  IF i > Len(order) THEN acc
  ELSE LET m == order[i]
           mid == MidOf(m)
           total_maps == scores[mid][1] + scores[mid][2]
           noted == [acc.results EXCEPT ![mid].scheduled = sched[mid]]
           w == scores_to_game_winners(scores[mid][1], scores[mid][2], m.A, m.B)
       IN IF total_maps > 3
          THEN DataEntryLoop(order, i + 1, scores, sched,
                 [results |-> noted,
                  invalid_matches |-> Append(acc.invalid_matches, mid)])
          ELSE DataEntryLoop(order, i + 1, scores, sched,
                 [results |-> [noted EXCEPT ![mid].g1 = w[1], ![mid].g2 = w[2],
                                            ![mid].g3 = w[3]],
                  invalid_matches |-> acc.invalid_matches])

\* the matches in the order of the dashboard
DISPLAY_ORDER == DisplayOrder(FirstRound)

DataEntry(data, scores, sched) ==
  DataEntryLoop(DISPLAY_ORDER, 1, scores, sched,
                [results |-> data, invalid_matches |-> <<>>])

(***************************************************************************)
(* State                                                                   *)
(***************************************************************************)
VARIABLES
  pc,              \* the step the run is at
  results,         \* the result set: match id -> entry
  match_stats,     \* what compute_match_stats returned
  standings,       \* what compute_standings returned
  score_match,     \* the match whose scores are entered
  a_score,         \* the number input of participant A
  b_score,         \* the number input of participant B
  winners,         \* what scores_to_game_winners returned
  GITHUB_TOKEN,    \* the secret, 0 when it is not set
  GIST_ID,         \* the secret, 0 when it is not set
  gists,           \* the remote store: gist id -> content of results.json
  file,            \* the content of RESULTS_FILE
  session,         \* the number of sessions started so far
  GIST_ID_CACHE,   \* st.session_state["GIST_ID_CACHE"], 0 when absent
  scores,          \* the score inputs: match id -> <<a_score, b_score>>
  sched,           \* the date and time inputs: match id -> schedule_val
  invalid_matches, \* the matches whose scores sum to more than 3
  notices,         \* the messages the last run showed
  loaded,          \* what load_results returned to this session
  load_env,        \* what the GET request of load_results met with
  save_env,        \* what the requests and the write of the last save met with
  saved,           \* the last results save_results returned normally for
  edits,           \* the number of inputs changed so far
  saves            \* the number of clicks on "Save results" so far

pure == <<match_stats, score_match, a_score, b_score, winners>>

app == <<GITHUB_TOKEN, GIST_ID, gists, file, session, GIST_ID_CACHE, scores, sched,
         invalid_matches, notices, loaded, load_env, save_env, saved, edits, saves>>

vars == <<pc, results, standings, pure, app>>

(***************************************************************************)
(* Bounds of the inputs                                                    *)
(***************************************************************************)
\* matches with a recorded slot in an input of compute_match_stats
MaxStatsMatches == 1

\* matches with a recorded game in an input of compute_standings
MaxRecorded == 2

\* matches with a recorded game in a lenient input of compute_standings
MaxLenientBase == 1

\* entries, fields and slots of a lenient input that are not well formed
MaxLenient == 1

\* sessions of the dashboard, one after the other
MaxSessions == 2

\* changes of a score or schedule input
MaxEdits == 2

\* clicks on "Save results"
MaxSaves == 2

\* the matches whose inputs are changed: the first ones of MATCHES
MaxEditMatch == 2

\* entries of a document that a store holds when a session starts
MaxStoredEntries == 1

\* matches with a recorded slot in the file a session starts from
MaxStoredMatches == 2

\* max_value of the two number inputs of a match
MaxScore == 3

\* a player of the roster who takes no part in match m
Outsider(m) == CHOOSE p \in PlayerSet : p # m.A /\ p # m.B

\* a value that names no player at all
Stranger == "Nobody"

\* the value a slot tag stands for in match m
SlotValue(m, tag) ==
  CASE tag = "A" -> m.A
    [] tag = "B" -> m.B
    [] tag = "P" -> Outsider(m)
    [] tag = "Z" -> Stranger
    [] OTHER -> ""

EntryOfTags(m, t) ==
  [g1 |-> SlotValue(m, t[1]), g2 |-> SlotValue(m, t[2]),
   g3 |-> SlotValue(m, t[3]), scheduled |-> ""]

NoGames == <<"", "", "">>

\* the result set with the entries of f and empty entries elsewhere
ResultSetOf(f) ==
  [mid \in MatchIds |->
     IF mid \in DOMAIN f THEN EntryOfTags(MatchOf(mid), f[mid]) ELSE EmptyEntry]

\* result sets with at most k matches holding slots drawn from tags
IsInput(r, k, tags) ==
  \E S \in SUBSET MatchIds :
    /\ Cardinality(S) <= k
    /\ \E f \in [S -> (tags \X tags \X tags) \ {NoGames}] : r = ResultSetOf(f)

\* the entry the data entry stores for the scores a : b
EntryOfScores(m, ab) ==
  LET w == scores_to_game_winners(ab[1], ab[2], m.A, m.B)
  IN [g1 |-> w[1], g2 |-> w[2], g3 |-> w[3], scheduled |-> ""]

RecordedScores ==
  {ab \in (0..MaxScore) \X (0..MaxScore) : ab[1] + ab[2] > 0 /\ ab[1] + ab[2] <= 3}

\* the stored form of the scores f gives, with empty entries elsewhere
StoredOf(f) ==
  [mid \in MatchIds |->
     IF mid \in DOMAIN f THEN EntryOfScores(MatchOf(mid), f[mid]) ELSE EmptyEntry]

NoStats == [mid \in {} |-> 0]

PureIdle ==
  /\ match_stats = NoStats
  /\ standings = <<>>
  /\ winners = <<>>

NoScores ==
  /\ score_match = 0
  /\ a_score = 0
  /\ b_score = 0

NoSave == [session |-> 0, data |-> <<>>]

NoEnv == [answer |-> "none", disk |-> "none"]

\* no session, no stores: the state of the dashboard where only one of the
\* functions is run
AppIdle ==
  /\ GITHUB_TOKEN = 0
  /\ GIST_ID = 0
  /\ gists = <<>>
  /\ file = NoContent
  /\ session = 0
  /\ GIST_ID_CACHE = 0
  /\ scores = <<>>
  /\ sched = <<>>
  /\ invalid_matches = <<>>
  /\ notices = {}
  /\ loaded = <<>>
  /\ load_env = "none"
  /\ save_env = NoEnv
  /\ saved = NoSave
  /\ edits = 0
  /\ saves = 0

(***************************************************************************)
(* SpecStats: compute_match_stats on slots of any value                    *)
(***************************************************************************)
InitStats ==
  /\ pc = "input"
  /\ IsInput(results, MaxStatsMatches, {"A", "B", "", "P", "Z"})
  /\ PureIdle
  /\ NoScores
  /\ AppIdle

ResolveMatches ==
  /\ pc = "input"
  /\ match_stats' = compute_match_stats(results)
  /\ pc' = "resolved"
  /\ UNCHANGED <<results, standings, score_match, a_score, b_score, winners, app>>

NextStats == ResolveMatches

SpecStats == InitStats /\ [][NextStats]_vars

(***************************************************************************)
(* SpecStandings: compute_standings on recorded games                      *)
(***************************************************************************)
\* the dashboard calls compute_standings after its data-entry pass, so the
\* result sets it ranks hold every match in the stored form of its scores
InitStandings ==
  /\ pc = "input"
  /\ \E S \in SUBSET MatchIds :
       /\ Cardinality(S) <= MaxRecorded
       /\ \E f \in [S -> RecordedScores] : results = StoredOf(f)
  /\ PureIdle
  /\ NoScores
  /\ AppIdle

ComputeStandings ==
  /\ pc = "input"
  /\ standings' = compute_standings(results)
  /\ pc' = "ranked"
  /\ UNCHANGED <<results, match_stats, score_match, a_score, b_score, winners, app>>

NextStandings == ComputeStandings

SpecStandings == InitStandings /\ [][NextStandings]_vars

(***************************************************************************)
(* SpecScores: scores_to_game_winners on the two number inputs             *)
(***************************************************************************)
InitScores ==
  /\ pc = "input"
  /\ results = ResultSetOf(NoStats)
  /\ PureIdle
  /\ score_match \in 1..Len(MATCHES)
  /\ a_score \in 0..MaxScore
  /\ b_score \in 0..MaxScore
  /\ AppIdle

ScoresToWinners ==
  /\ pc = "input"
  /\ winners' = scores_to_game_winners(a_score, b_score,
                                       MATCHES[score_match].A, MATCHES[score_match].B)
  /\ pc' = "converted"
  /\ UNCHANGED <<results, match_stats, standings, score_match, a_score, b_score, app>>

NextScores == ScoresToWinners

SpecScores == InitScores /\ [][NextScores]_vars

(***************************************************************************)
(* SpecLenient: compute_standings on result sets that are not well formed  *)
(***************************************************************************)
\* what can be wrong with a result set: an entry that is missing, a game
\* field that is missing or names neither participant, a field nobody reads
Deviations ==
  (MatchIds \X {"g1", "g2", "g3"} \X {"absent", "P", "Z"})
    \cup (MatchIds \X {"entry"} \X {"absent"})
    \cup (MatchIds \X {"note"} \X {"extra"})

WithoutKey(d, key) == [k \in (DOMAIN d) \ {key} |-> d[k]]

WithKey(d, key, val) == [k \in (DOMAIN d) \cup {key} |-> IF k = key THEN val ELSE d[k]]

ApplyDeviation(r, dev) ==
  LET mid == dev[1]
      field == dev[2]
      kind == dev[3]
  IN IF mid \notin DOMAIN r THEN r
     ELSE IF field = "entry" THEN WithoutKey(r, mid)
     ELSE IF kind = "absent" THEN WithKey(r, mid, WithoutKey(r[mid], field))
     ELSE IF kind = "extra" THEN WithKey(r, mid, WithKey(r[mid], field, "rematch"))
     ELSE WithKey(r, mid, WithKey(r[mid], field, SlotValue(MatchOf(mid), kind)))

RECURSIVE ApplyDeviations(_, _)
ApplyDeviations(r, devs) ==
  IF devs = <<>> THEN r
  ELSE ApplyDeviations(ApplyDeviation(r, Head(devs)), Tail(devs))

InitLenient ==
  /\ pc = "input"
  /\ \E S \in SUBSET MatchIds :
       /\ Cardinality(S) <= MaxLenientBase
       /\ \E f \in [S -> RecordedScores] :
            \E n \in 0..MaxLenient :
              \E devs \in [1..n -> Deviations] :
                results = ApplyDeviations(StoredOf(f), devs)
  /\ PureIdle
  /\ NoScores
  /\ AppIdle

RankLenient ==
  /\ pc = "input"
  /\ standings' = compute_standings(results)
  /\ pc' = "ranked"
  /\ UNCHANGED <<results, match_stats, score_match, a_score, b_score, winners, app>>

NextLenient == RankLenient

SpecLenient == InitLenient /\ [][NextLenient]_vars

(***************************************************************************)
(* SpecAgain: compute_standings called twice on the same result set        *)
(***************************************************************************)
\* the second call with results.setdefault(mid, {}) in place of
\* results.get(mid, {}): the entries it misses are left in the argument
RankAgain_setdefault ==
  /\ pc = "ranked"
  /\ standings' = compute_standings(results)
  /\ results' = [mid \in (DOMAIN results) \cup MatchIds |-> Get(results, mid, <<>>)]
  /\ pc' = "ranked again"
  /\ UNCHANGED <<match_stats, score_match, a_score, b_score, winners, app>>

\* the second call: compute_standings and the functions it calls read
\* results with dict.get only and assign to locals only
RankAgain ==
  /\ pc = "ranked"
  /\ standings' = compute_standings(results)
  /\ pc' = "ranked again"
  /\ UNCHANGED <<results, match_stats, score_match, a_score, b_score, winners, app>>

NextAgain ==
  \/ RankLenient
  \/ RankAgain

SpecAgain == InitLenient /\ [][NextAgain]_vars

(***************************************************************************)
(* Spec: sessions of the dashboard over the two stores                     *)
(***************************************************************************)
Init ==
  /\ pc = "closed"
  /\ results = <<>>
  /\ standings = <<>>
  /\ PureIdle
  /\ NoScores
  /\ GITHUB_TOKEN \in {0, 1}
  /\ GIST_ID \in {0, 1}
  /\ gists = IF GIST_ID = 0 THEN <<>> ELSE <<NoContent>>
  /\ file \in {NoContent, Unparsable}
  /\ session = 0
  /\ GIST_ID_CACHE = 0
  /\ scores = <<>>
  /\ sched = <<>>
  /\ invalid_matches = <<>>
  /\ notices = {}
  /\ loaded = <<>>
  /\ load_env = "none"
  /\ save_env = NoEnv
  /\ saved = NoSave
  /\ edits = 0
  /\ saves = 0

\* the part of a run of the script from the data-entry loop to the
\* standings, save being what the click on "Save results" left behind
Rerun(data, new_scores, new_sched, save) ==
  \E de \in {DataEntry(data, new_scores, new_sched)} :
     /\ results' = de.results
     /\ invalid_matches' = de.invalid_matches
     /\ scores' = new_scores
     /\ sched' = new_sched
     /\ notices' = save \cup (IF de.invalid_matches # <<>>
                              THEN {"warning: max 3 games"} ELSE {})
     /\ standings' = compute_standings(de.results)

\* the first run of a session: load_results, the widget defaults, the
\* data-entry loop and the standings
StartSession ==
  /\ pc = "closed"
  /\ session < MaxSessions
  /\ \E answer \in (IF GITHUB_TOKEN # 0 /\ GIST_ID # 0
                    THEN {"ok", "failed"} ELSE {"skipped"}) :
       LET data == load_results(GITHUB_TOKEN, GIST_ID, answer, gists, file)
       IN /\ loaded' = data
          /\ load_env' = answer
          /\ Rerun(data, DefaultScores(data), DefaultSched(data), {})
  /\ pc' = "open"
  /\ session' = session + 1
  /\ save_env' = NoEnv
  /\ UNCHANGED <<pure, GITHUB_TOKEN, GIST_ID, gists, file, GIST_ID_CACHE, saved,
                 edits, saves>>

EditMatches == {MidOf(MATCHES[i]) : i \in 1..MaxEditMatch} \cap MatchIds

\* the user changes a score input, which runs the script again
EditScore ==
  /\ pc = "open"
  /\ edits < MaxEdits
  /\ \E mid \in EditMatches, side \in {1, 2}, v \in 0..MaxScore :
       /\ scores[mid][side] # v
       /\ Rerun(results, [scores EXCEPT ![mid][side] = v], sched, {})
  /\ edits' = edits + 1
  /\ save_env' = NoEnv
  /\ UNCHANGED <<pc, pure, GITHUB_TOKEN, GIST_ID, gists, file, session, GIST_ID_CACHE,
                 loaded, load_env, saved, saves>>

\* the user changes the date or time input of a match
EditSchedule ==
  /\ pc = "open"
  /\ edits < MaxEdits
  /\ \E mid \in EditMatches, note \in {DefaultSchedule, PickedSchedule} :
       /\ sched[mid] # note
       /\ Rerun(results, scores, [sched EXCEPT ![mid] = note], {})
  /\ edits' = edits + 1
  /\ save_env' = NoEnv
  /\ UNCHANGED <<pc, pure, GITHUB_TOKEN, GIST_ID, gists, file, session, GIST_ID_CACHE,
                 loaded, load_env, saved, saves>>

\* the user clicks "Save results", enabled while no match is invalid: the
\* script runs again and calls save_results inside try / except
ClickSave ==
  /\ pc = "open"
  /\ saves < MaxSaves
  /\ invalid_matches = <<>>
  /\ \E answer \in (IF GITHUB_TOKEN = 0 THEN {"skipped"}
                    ELSE IF GIST_ID_CACHE # 0 \/ GIST_ID # 0
                         THEN {"ok", "status", "exception"}
                         ELSE {"ok", "no id", "status", "exception"}),
        disk \in {"ok", "failed"} :
       \E data \in {DataEntry(results, scores, sched).results} :
       \E out \in {save_results(data, GITHUB_TOKEN, GIST_ID, GIST_ID_CACHE,
                               answer, disk, gists, file)} :
          /\ gists' = out.gists
          /\ file' = out.file
          /\ GIST_ID_CACHE' = out.cache
          /\ save_env' = [answer |-> answer, disk |-> disk]
          /\ saved' = IF out.raised THEN saved ELSE [session |-> session, data |-> data]
          /\ Rerun(results, scores, sched,
                   out.notices \cup (IF out.raised THEN {"error: failed to save"}
                                     ELSE {"success: results saved"}))
  /\ saves' = saves + 1
  /\ UNCHANGED <<pc, pure, GITHUB_TOKEN, GIST_ID, session, loaded, load_env, edits>>

\* the session ends and st.session_state goes with it
EndSession ==
  /\ pc = "open"
  /\ pc' = "closed"
  /\ results' = <<>>
  /\ standings' = <<>>
  /\ GIST_ID_CACHE' = 0
  /\ scores' = <<>>
  /\ sched' = <<>>
  /\ invalid_matches' = <<>>
  /\ notices' = {}
  /\ loaded' = <<>>
  /\ load_env' = "none"
  /\ save_env' = NoEnv
  /\ UNCHANGED <<pure, GITHUB_TOKEN, GIST_ID, gists, file, session, saved, edits, saves>>

Next ==
  \/ StartSession
  \/ EditScore
  \/ EditSchedule
  \/ ClickSave
  \/ EndSession

Spec == Init /\ [][Next]_vars

(***************************************************************************)
(* SpecEntry: one session over a local file that holds results             *)
(***************************************************************************)
\* no secrets are set and RESULTS_FILE holds what an earlier session saved
\* for the matches whose inputs are changed
InitEntry ==
  /\ pc = "closed"
  /\ results = <<>>
  /\ PureIdle
  /\ NoScores
  /\ GITHUB_TOKEN = 0
  /\ GIST_ID = 0
  /\ gists = <<>>
  /\ \E S \in SUBSET EditMatches :
       \E f \in [S -> RecordedScores] : file = json_dumps(StoredOf(f))
  /\ session = 0
  /\ GIST_ID_CACHE = 0
  /\ scores = <<>>
  /\ sched = <<>>
  /\ invalid_matches = <<>>
  /\ notices = {}
  /\ loaded = <<>>
  /\ load_env = "none"
  /\ save_env = NoEnv
  /\ saved = NoSave
  /\ edits = 0
  /\ saves = 0

OneSession ==
  /\ session = 0
  /\ StartSession

NextEntry ==
  \/ OneSession
  \/ EditScore
  \/ EditSchedule
  \/ ClickSave

SpecEntry == InitEntry /\ [][NextEntry]_vars

(***************************************************************************)
(* SpecLoad: the first run of a session over stores of any content         *)
(***************************************************************************)
Fields == {"g1", "g2", "g3", "scheduled"}

\* an entry of match m as a store may hold it: the fields F only
StoredEntry(m, F) ==
  [k \in F |-> CASE k = "g1" -> m.A
                 [] k = "g2" -> m.B
                 [] k = "g3" -> m.A
                 [] OTHER -> PickedSchedule]

\* the documents of the persisted layout that hold entries for matches of S
\* only: match id -> object with some of the four fields
StoredDocs(S) ==
  UNION {[T -> SUBSET Fields] : T \in SUBSET S}

DocOf(h) == [mid \in DOMAIN h |-> StoredEntry(MatchOf(mid), h[mid])]

\* what a store may hold: nothing, text that is no JSON, null, or a document
StoredContents(S) ==
  {NoContent, Unparsable, JsonNull} \cup {json_dumps(DocOf(h)) : h \in StoredDocs(S)}

InitLoad ==
  /\ pc = "closed"
  /\ results = <<>>
  /\ PureIdle
  /\ NoScores
  /\ GITHUB_TOKEN \in {0, 1}
  /\ GIST_ID \in {0, 1}
  /\ \E S \in SUBSET MatchIds :
       /\ Cardinality(S) <= MaxStoredEntries
       /\ gists \in (IF GIST_ID = 0 THEN {<<>>}
                     ELSE {<<c>> : c \in StoredContents(S)})
       /\ file \in StoredContents(S)
  /\ session = 0
  /\ GIST_ID_CACHE = 0
  /\ scores = <<>>
  /\ sched = <<>>
  /\ invalid_matches = <<>>
  /\ notices = {}
  /\ loaded = <<>>
  /\ load_env = "none"
  /\ save_env = NoEnv
  /\ saved = NoSave
  /\ edits = 0
  /\ saves = 0

NextLoad == OneSession

SpecLoad == InitLoad /\ [][NextLoad]_vars

(***************************************************************************)
(* SpecDefaults: the first run of a session over slots in any order        *)
(***************************************************************************)
\* no secrets are set and RESULTS_FILE holds complete entries whose slots
\* name the participants in any order
InitDefaults ==
  /\ pc = "closed"
  /\ results = <<>>
  /\ PureIdle
  /\ NoScores
  /\ GITHUB_TOKEN = 0
  /\ GIST_ID = 0
  /\ gists = <<>>
  /\ \E S \in SUBSET MatchIds :
       /\ Cardinality(S) <= MaxStoredMatches
       /\ \E f \in [S -> ({"A", "B", ""} \X {"A", "B", ""} \X {"A", "B", ""}) \ {NoGames}] :
            file = json_dumps(ResultSetOf(f))
  /\ session = 0
  /\ GIST_ID_CACHE = 0
  /\ scores = <<>>
  /\ sched = <<>>
  /\ invalid_matches = <<>>
  /\ notices = {}
  /\ loaded = <<>>
  /\ load_env = "none"
  /\ save_env = NoEnv
  /\ saved = NoSave
  /\ edits = 0
  /\ saves = 0

NextDefaults == OneSession

SpecDefaults == InitDefaults /\ [][NextDefaults]_vars

(***************************************************************************)
(* Helpers of the properties                                               *)
(***************************************************************************)
RECURSIVE Sum(_)
Sum(seq) == IF seq = <<>> THEN 0 ELSE seq[1] + Sum(Tail(seq))

\* the slots of match m as the result set holds them, a missing one as ""
SlotsOf(r, m) ==
  LET e == Get(r, MidOf(m), <<>>)
  IN <<Get(e, "g1", ""), Get(e, "g2", ""), Get(e, "g3", "")>>

\* the number of slots of match m that name player p
SlotCount(r, m, p) == Cardinality({j \in 1..3 : SlotsOf(r, m)[j] = p})

GamesOf(r, m) == SlotCount(r, m, m.A) + SlotCount(r, m, m.B)

\* the player with strictly more slots, "" when there is none
LeaderOf(r, m) ==
  IF SlotCount(r, m, m.A) > SlotCount(r, m, m.B) THEN m.A
  ELSE IF SlotCount(r, m, m.B) > SlotCount(r, m, m.A) THEN m.B
  ELSE ""

\* the same result set with nothing wrong: every entry and game field
\* present, and a slot that names neither participant emptied
Sanitized(r) ==
  [mid \in MatchIds |->
     LET m == MatchOf(mid)
         s == SlotsOf(r, m)
         Clean(v) == IF v \in {m.A, m.B} THEN v ELSE ""
     IN [g1 |-> Clean(s[1]), g2 |-> Clean(s[2]), g3 |-> Clean(s[3]),
         scheduled |-> Get(Get(r, mid, <<>>), "scheduled", "")]]

\* the row of player p in the table
RowOf(p) == standings[CHOOSE i \in DOMAIN standings : standings[i].player = p]

\* the slots of match m that p won, 0 when p takes no part
MapsFor(r, m, p) == IF p \in {m.A, m.B} THEN SlotCount(r, m, p) ELSE 0

\* the slots of match m that p lost, 0 when p takes no part
MapsAgainst(r, m, p) ==
  IF p = m.A THEN SlotCount(r, m, m.B)
  ELSE IF p = m.B THEN SlotCount(r, m, m.A)
  ELSE 0

\* alphabetical position of the player identifiers
AlphaRank(p) ==
  CASE p = "Dahn" -> 1
    [] p = "Homi" -> 2
    [] p = "Manu" -> 3
    [] p = "Till" -> 4
    [] p = "Tobi" -> 5

\* row x has a strictly greater ranking tuple than row y
TupleGreater(x, y) ==
  \/ x.match_wins > y.match_wins
  \/ /\ x.match_wins = y.match_wins
     /\ \/ x.mini_match_wins > y.mini_match_wins
        \/ /\ x.mini_match_wins = y.mini_match_wins
           /\ \/ x.mini_map_wins > y.mini_map_wins
              \/ /\ x.mini_map_wins = y.mini_map_wins
                 /\ x.map_wins > y.map_wins

TupleEqual(x, y) ==
  /\ x.match_wins = y.match_wins
  /\ x.mini_match_wins = y.mini_match_wins
  /\ x.mini_map_wins = y.mini_map_wins
  /\ x.map_wins = y.map_wins

(***************************************************************************)
(* Properties                                                              *)
(***************************************************************************)
\* C1: for every match and every assignment of its three slots,
\* compute_match_stats returns A_maps = the number of slots equal to A,
\* B_maps = the number of slots equal to B, A_maps + B_maps <= 3, winner A
\* when A_maps > B_maps, B when B_maps > A_maps, and none iff they are equal.
C1_MatchStats ==
  pc = "resolved" =>
    \A i \in DOMAIN MATCHES :
      LET m == MATCHES[i]
          st == match_stats[MidOf(m)]
          na == SlotCount(results, m, m.A)
          nb == SlotCount(results, m, m.B)
      IN /\ st.A_maps = na
         /\ st.B_maps = nb
         /\ st.A_maps + st.B_maps <= 3
         /\ st.winner \in {m.A, m.B, ""}
         /\ (st.A_maps > st.B_maps => st.winner = m.A)
         /\ (st.B_maps > st.A_maps => st.winner = m.B)
         /\ (st.winner = "" <=> st.A_maps = st.B_maps)

\* a match with a slot of an outsider and a slot of a stranger, won by B 1-0
C1_Witness ==
  /\ pc = "resolved"
  /\ \E i \in DOMAIN MATCHES :
       LET m == MATCHES[i]
       IN /\ SlotsOf(results, m) = <<Outsider(m), m.B, Stranger>>
          /\ match_stats[MidOf(m)] = [A_maps |-> 0, B_maps |-> 1, winner |-> m.B]

C3_MiniStats ==
  pc = "ranked" =>
    \A groups \in {wins_groups(compute_player_aggregate(compute_match_stats(results)))} :
    \A wins \in {[p \in PlayerSet |-> RowOf(p).match_wins]} :
    \A counted \in {{i \in DOMAIN MATCHES :
                       /\ GamesOf(results, MATCHES[i]) > 0
                       /\ wins[MATCHES[i].A] = wins[MATCHES[i].B]}} :
      /\ \A p \in PlayerSet :
           Cardinality({g \in DOMAIN groups : p \in Range(groups[g].players)}) = 1
      /\ \A p, q \in PlayerSet :
           (\E g \in DOMAIN groups : {p, q} \subseteq Range(groups[g].players))
             <=> wins[p] = wins[q]
      /\ \A p \in PlayerSet :
           /\ RowOf(p).mini_map_wins =
                Sum([i \in DOMAIN MATCHES |->
                       IF i \in counted
                       THEN MapsFor(results, MATCHES[i], p) ELSE 0])
           /\ RowOf(p).mini_match_wins =
                Sum([i \in DOMAIN MATCHES |->
                       IF i \in counted /\ LeaderOf(results, MATCHES[i]) = p
                       THEN 1 ELSE 0])

\* one match inside a tier that counts and one across tiers that does not
C3_Witness ==
  /\ pc = "ranked"
  /\ \E i, j \in DOMAIN MATCHES :
       LET m == MATCHES[i]
           n == MATCHES[j]
       IN /\ GamesOf(results, m) > 0
          /\ LeaderOf(results, m) = m.A
          /\ RowOf(m.A).match_wins = RowOf(m.B).match_wins
          /\ RowOf(m.A).mini_match_wins = 1
          /\ GamesOf(results, n) > 0
          /\ RowOf(n.A).match_wins # RowOf(n.B).match_wins
          /\ RowOf(n.B).mini_map_wins = 0
          /\ SlotCount(results, n, n.B) > 0

\* C4: the match_wins of all players sum to the number of matches with a
\* winner, and the map_wins of all players sum to their map_losses.
C4_Sums ==
  pc = "ranked" =>
    /\ Sum([i \in DOMAIN standings |-> standings[i].match_wins])
         = Cardinality({i \in DOMAIN MATCHES : LeaderOf(results, MATCHES[i]) # ""})
    /\ Sum([i \in DOMAIN standings |-> standings[i].map_wins])
         = Sum([i \in DOMAIN standings |-> standings[i].map_losses])

\* two matches with a winner and map wins on both sides
C4_Witness ==
  /\ pc = "ranked"
  /\ Sum([i \in DOMAIN standings |-> standings[i].match_wins]) = 2
  /\ Sum([i \in DOMAIN standings |-> standings[i].map_losses]) = 5

\* C5: the table has exactly one row per configured player, also for a
\* player without a match.
C5_OneRowPerPlayer ==
  pc = "ranked" =>
    /\ Len(standings) = Len(PLAYERS)
    /\ \A p \in PlayerSet :
         Cardinality({i \in DOMAIN standings : standings[i].player = p}) = 1

\* a table with a player who played and a player who did not
C5_Witness ==
  /\ pc = "ranked"
  /\ \E i, j \in DOMAIN standings :
       /\ standings[i].matches_played = 0
       /\ standings[j].matches_played = 2

\* C6: a match without a recorded game adds nothing to any counter: each
\* counter is the total over the matches with a recorded game, and the table
\* is the one computed without the matches that have none.
C6_ZeroGames ==
  pc = "ranked" =>
    LET Played(m) == GamesOf(results, m) > 0
    IN /\ standings = standings_of(SelectSeq(MATCHES, Played), results)
       /\ \A p \in PlayerSet :
            \A row \in {RowOf(p)} :
            \A mine \in {{i \in DOMAIN MATCHES :
                            p \in {MATCHES[i].A, MATCHES[i].B} /\ Played(MATCHES[i])}} :
              /\ row.matches_played = Cardinality(mine)
              /\ row.match_wins =
                   Cardinality({i \in mine : LeaderOf(results, MATCHES[i]) = p})
              /\ row.match_losses =
                   Cardinality({i \in mine : LeaderOf(results, MATCHES[i]) \notin {p, ""}})
              /\ row.map_wins =
                   Sum([i \in DOMAIN MATCHES |->
                          IF i \in mine THEN MapsFor(results, MATCHES[i], p) ELSE 0])
              /\ row.map_losses =
                   Sum([i \in DOMAIN MATCHES |->
                          IF i \in mine THEN MapsAgainst(results, MATCHES[i], p) ELSE 0])

\* a player with one played match among matches without a game
C6_Witness ==
  /\ pc = "ranked"
  /\ \E i \in DOMAIN MATCHES :
       /\ GamesOf(results, MATCHES[i]) = 0
       /\ RowOf(MATCHES[i].A).matches_played = 1
       /\ RowOf(MATCHES[i].B).matches_played = 0

\* C7: after save_results has returned normally, load_results of a later
\* session returns the saved game winners and schedule note of every match,
\* whichever of GITHUB_TOKEN and GIST_ID are set.
C7_PersistAcrossSessions ==
  (pc = "open" /\ saved.session # 0 /\ saved.session < session) =>
    \A mid \in MatchIds :
      \A field \in {"g1", "g2", "g3", "scheduled"} :
        loaded[mid][field] = saved.data[mid][field]

C9_Lenient ==
  pc = "ranked" =>
    /\ standings = compute_standings(Sanitized(results))
    /\ \A p \in PlayerSet :
         RowOf(p).map_wins =
           Sum([i \in DOMAIN MATCHES |-> MapsFor(results, MATCHES[i], p)])

\* a match won 1-0 whose second slot names an outsider
C9_Witness ==
  /\ pc = "ranked"
  /\ \E i \in DOMAIN MATCHES :
       LET m == MATCHES[i]
       IN /\ MidOf(m) \in DOMAIN results
          /\ "g2" \in DOMAIN results[MidOf(m)]
          /\ SlotsOf(results, m) = <<m.A, Outsider(m), "">>
          /\ RowOf(m.A).match_wins = 1
          /\ RowOf(m.A).map_wins = 1
          /\ RowOf(Outsider(m)).matches_played = 0

\* C10: for a_wins + b_wins <= 3, scores_to_game_winners returns three
\* slots: a_wins of participant A, then b_wins of participant B, then
\* empty ones.
C10_ScoreForm ==
  (pc = "converted" /\ a_score + b_score <= 3) =>
    /\ Len(winners) = 3
    /\ \A i \in 1..3 :
         winners[i] = IF i <= a_score THEN MATCHES[score_match].A
                      ELSE IF i <= a_score + b_score THEN MATCHES[score_match].B
                      ELSE ""

\* one win each and an empty third slot
C10_Witness ==
  /\ pc = "converted"
  /\ a_score = 1
  /\ b_score = 1
  /\ winners = <<MATCHES[score_match].A, MATCHES[score_match].B, "">>

C12_EntryGuard ==
  [][pc' = "open" =>
       LET before == IF pc = "closed" THEN loaded' ELSE results
           Slots(e) == <<e.g1, e.g2, e.g3>>
           Total(mid) == scores'[mid][1] + scores'[mid][2]
       IN /\ \A mid \in MatchIds :
               /\ results'[mid].scheduled = sched'[mid]
               /\ Total(mid) > 3 =>
                    /\ Slots(results'[mid]) = Slots(before[mid])
                    /\ mid \in Range(invalid_matches')
               /\ Total(mid) <= 3 =>
                    /\ Slots(results'[mid]) =
                         scores_to_game_winners(scores'[mid][1], scores'[mid][2],
                                                MatchOf(mid).A, MatchOf(mid).B)
                    /\ mid \notin Range(invalid_matches')
          /\ saves' = saves + 1 =>
               /\ invalid_matches = <<>>
               /\ \A mid \in MatchIds : Total(mid) <= 3
               /\ save_env'.disk = "ok" =>
                    /\ file' = json_dumps(results')
                    /\ \A mid \in MatchIds :
                         GamesOf(file'.data, MatchOf(mid)) = Total(mid)]_vars

\* a match with scores of more than 3 games that keeps the slots it was
\* loaded with while its schedule note is the one picked
C12_Witness ==
  /\ pc = "open"
  /\ \E mid \in MatchIds :
       /\ scores[mid][1] + scores[mid][2] > 3
       /\ mid \in Range(invalid_matches)
       /\ GamesOf(results, MatchOf(mid)) = 3
       /\ results[mid].g1 = loaded[mid].g1
       /\ results[mid].scheduled = PickedSchedule
       /\ loaded[mid].scheduled # PickedSchedule

C14_RoundTrip ==
  pc = "open" =>
    /\ \A mid \in MatchIds :
         LET m == MatchOf(mid)
             a == scores[mid][1]
             b == scores[mid][2]
             w == scores_to_game_winners(a, b, m.A, m.B)
             again == MatchStatsOf(m, [k \in {mid} |->
                                         [g1 |-> w[1], g2 |-> w[2], g3 |-> w[3]]])
         IN /\ a + b <= 3
            /\ again.A_maps = a
            /\ again.B_maps = b
            /\ <<results[mid].g1, results[mid].g2, results[mid].g3>> = w
    /\ compute_match_stats(results) = compute_match_stats(loaded)
    /\ standings = compute_standings(loaded)

\* a first run that rewrites the order of the slots of a match with a winner
C14_Witness ==
  /\ pc = "open"
  /\ \E mid \in MatchIds :
       /\ loaded[mid].g1 = ""
       /\ loaded[mid].g2 = MatchOf(mid).B
       /\ loaded[mid].g3 = MatchOf(mid).A
       /\ results[mid].g1 = MatchOf(mid).A
       /\ results[mid].g2 = MatchOf(mid).B
       /\ results[mid].g3 = ""
  /\ \E i \in DOMAIN standings : standings[i].match_wins > 0

=============================================================================
